---- MODULE Spec2Model ----
(***************************************************************************)
(* Model of check_graphite (src/main.go): one fetch-classify-report run.   *)
(*                                                                         *)
(* Two tasks run concurrently: the control task (run_check) and the fetch  *)
(* task (parse).  The fetch task reads CSV records one at a time, reduces  *)
(* them to one Metric per path and posts a GraphiteResponse on the         *)
(* unbuffered channel chRes; the control task selects between that message *)
(* and a timer.                                                            *)
(*                                                                         *)
(* Numbers.  A Go float64 is represented exactly, as a rational <<n, d>>   *)
(* of TENTHS (42.5 is <<425, 1>>); Metric.Value, the thresholds, the       *)
(* timeout and the round-trip time are integers of tenths.                 *)
(* Strings handed to time.Parse and strconv.ParseFloat are decoded by the  *)
(* tables ParseTime and ParseFloat.                                        *)
(***************************************************************************)
EXTENDS Integers, Sequences, FiniteSets, TLC

\* ------------------------------------------------------------------------
\* Constants of the program (src/main.go:20-40)
\* ------------------------------------------------------------------------
CMP_LT == "lt"
CMP_GT == "gt"
DEF_PERIOD == "301s"
S_OK == "OK"
S_WARNING == "WARNING"
S_CRITICAL == "CRITICAL"
S_UNKNOWN == "UNKNOWN"
E_OK == 0
E_WARNING == 1
E_CRITICAL == 2
E_UNKNOWN == 3

\* exit status of logrus' Fatal (log.Fatal in geturl)
E_LOGFATAL == 1

\* ------------------------------------------------------------------------
\* Bounds and input sets
\* ------------------------------------------------------------------------
\* the largest number of records the CSV reader returns for one body
MaxRecords == 3

\* values of the -i flag: the two recognised ones and an unrecognised one
IfFlags == {"gt", "lt", "above"}

\* (warning, critical) threshold pairs, in tenths
Thresholds == {<<300, 500>>, <<500, 300>>}

\* values of the -t flag, in tenths of a second
Timeouts == {10, 15}

\* round-trip times of the HTTP call, in tenths of a second
RoundTrips == {3, 20}

T0 == "2016-06-17 10:00:00"
T5 == "2016-06-17 10:00:05"

\* records with three well-formed fields
GoodRecords ==
    { <<"a.b.c", T0, "42.5">>,
      <<"a.b.c", T5, "-5">>,
      <<"a.b.c", T5, "30">>,
      <<"x.y", T0, "-5">>,
      <<"x.y", T5, "60">> }

\* one record for each way a record can be malformed
BadRecords ==
    { <<"", T0, "42.5">>,
      <<"a.b.c", "17/06/2016", "42.5">>,
      <<"a.b.c", T0, "">>,
      <<"x.y", T0, "abc">>,
      <<"a.b.c", "42.5">>,
      <<"a.b.c", T0, "42.5", "extra">> }

Records == GoodRecords \cup BadRecords

\* ------------------------------------------------------------------------
\* Numbers
\* ------------------------------------------------------------------------
Abs(n) == IF n < 0 THEN -n ELSE n

RECURSIVE GCD(_, _)
GCD(a, b) == IF b = 0 THEN a ELSE GCD(b, a % b)

\* the rational n/d (d > 0) in lowest terms
Rat(n, d) == LET g == GCD(Abs(n), d) IN <<n \div g, d \div g>>

\* typed arguments of fmt.Sprintf
FloatArg(r) == [type |-> "float64", val |-> r, str |-> ""]
IntArg(n) == [type |-> "int", val |-> <<n, 1>>, str |-> ""]
StrArg(s) == [type |-> "string", val |-> <<0, 1>>, str |-> s]
ErrArg(e) == [type |-> "error", val |-> <<0, 1>>, str |-> e]

\* a float64 holding a whole number of tenths
F(n) == FloatArg(<<n, 1>>)

\* ------------------------------------------------------------------------
\* Decoding one CSV record
\* ------------------------------------------------------------------------
NoMetric == [Path |-> "", TS |-> 0, Value |-> 0]

NewMetric(path, ts, val) == [Path |-> path, TS |-> ts, Value |-> val]

\* time.Parse(G_DATEFORMAT, s): the Unix time of s, or an error
ParseTime(s) ==
    CASE s = T0 -> [ok |-> TRUE, ts |-> 1466157600]
      [] s = T5 -> [ok |-> TRUE, ts |-> 1466157605]
      [] OTHER -> [ok |-> FALSE, ts |-> 0]

\* strconv.ParseFloat(s, 64): the value of s in tenths, or an error
ParseFloat(s) ==
    CASE s = "42.5" -> [ok |-> TRUE, val |-> 425]
      [] s = "-5" -> [ok |-> TRUE, val |-> -50]
      [] s = "30" -> [ok |-> TRUE, val |-> 300]
      [] s = "60" -> [ok |-> TRUE, val |-> 600]
      [] OTHER -> [ok |-> FALSE, val |-> 0]

NewMetricFromCSV(csv) ==
    IF Len(csv) # 3
    THEN [err |-> "CSV record length != 3", m |-> NoMetric]
    ELSE IF csv[1] = ""
    THEN [err |-> "Empty metric path", m |-> NoMetric]
    ELSE IF ~ParseTime(csv[2]).ok
    THEN [err |-> "time.Parse", m |-> NoMetric]
    ELSE IF csv[3] = ""
    THEN [err |-> "Empty value field", m |-> NoMetric]
    ELSE IF ~ParseFloat(csv[3]).ok
    THEN [err |-> "strconv.ParseFloat", m |-> NoMetric]
    ELSE [err |-> "", m |-> NewMetric(csv[1], ParseTime(csv[2]).ts, ParseFloat(csv[3]).val)]

\* m.Latest(nm), mutated: the receiver wins a tie
Latest_TieToReceiver(m, nm) == IF m.TS >= nm.TS THEN m ELSE nm

\* m.Latest(nm)
Latest(m, nm) == IF m.TS > nm.TS THEN m ELSE nm

\* ------------------------------------------------------------------------
\* Metrics: statistics and partitioning
\* ------------------------------------------------------------------------
RECURSIVE MaxLoop(_, _, _)
MaxLoop(ms, i, max) ==
    IF i > Len(ms) THEN max
    ELSE MaxLoop(ms, i + 1, IF ms[i].Value > max THEN ms[i].Value ELSE max)

\* Metrics.Max(): the accumulator starts at the zero value of float64
Max(ms) == MaxLoop(ms, 1, 0)

RECURSIVE MinLoop(_, _, _)
MinLoop(ms, i, min) ==
    IF i > Len(ms) THEN min
    ELSE MinLoop(ms, i + 1, IF ms[i].Value < min THEN ms[i].Value ELSE min)

Min(ms) == MinLoop(ms, 1, Max(ms))

RECURSIVE Total(_, _)
Total(ms, i) == IF i > Len(ms) THEN 0 ELSE ms[i].Value + Total(ms, i + 1)

Avg(ms) == IF Len(ms) = 0 THEN <<0, 1>> ELSE Rat(Total(ms, 1), Len(ms))

RECURSIVE LongestKeyLoop(_, _, _)
LongestKeyLoop(ms, i, l) ==
    IF i > Len(ms) THEN l
    ELSE LongestKeyLoop(ms, i + 1, IF Len(ms[i].Path) > l THEN Len(ms[i].Path) ELSE l)

LongestKey(ms) == LongestKeyLoop(ms, 1, 0)

\* checkIf, mutated: strict comparisons
checkIf_Strict(condition, val, threshold) ==
    IF condition = CMP_GT THEN val > threshold ELSE val < threshold

\* checkIf, mutated: the directions swapped
checkIf_Swapped(condition, val, threshold) ==
    IF condition = CMP_GT THEN val <= threshold ELSE val >= threshold

checkIf(condition, val, threshold) ==
    IF condition = CMP_GT THEN val >= threshold ELSE val <= threshold

\* the three slices FilterOffenders builds in its loop, in input order
Classify(ms, condition, warn, crit) ==
    [c |-> SelectSeq(ms, LAMBDA m : checkIf(condition, m.Value, crit)),
     w |-> SelectSeq(ms, LAMBDA m : ~checkIf(condition, m.Value, crit)
                                    /\ checkIf(condition, m.Value, warn)),
     o |-> SelectSeq(ms, LAMBDA m : ~checkIf(condition, m.Value, crit)
                                    /\ ~checkIf(condition, m.Value, warn))]

\* all orders of the elements of a sequence
Perms(s) ==
    LET n == Len(s)
        bij == {f \in [1..n -> 1..n] : \A i, j \in 1..n : f[i] = f[j] => i = j}
    IN {[i \in 1..n |-> s[f[i]]] : f \in bij}

\* Less(i, j) of the order FilterOffenders sorts by
Less(condition, a, b) ==
    IF condition = CMP_GT THEN b.Value < a.Value ELSE a.Value < b.Value

\* the results sort.Sort can leave (it is not stable: any order of equal values)
Sorted(s, condition) ==
    {p \in Perms(s) : \A i \in 1..(Len(p) - 1) : ~Less(condition, p[i + 1], p[i])}

\* the set of results FilterOffenders can return
FilterOffenders(ms, condition, warn, crit) ==
    LET cl == Classify(ms, condition, warn, crit)
    IN {[o |-> so, w |-> sw, c |-> sc] :
            so \in Sorted(cl.o, condition),
            sw \in Sorted(cl.w, condition),
            sc \in Sorted(cl.c, condition)}

\* ------------------------------------------------------------------------
\* Formatting
\* ------------------------------------------------------------------------
\* does a verb of fmt accept an argument of this type
VerbAccepts(verb, type) ==
    CASE verb \in {"f", ".02f"} -> type = "float64"
      [] verb = "d" -> type = "int"
      [] verb \in {"s", "q"} -> type \in {"string", "error"}
      [] OTHER -> FALSE

\* fmt.Sprintf: the i-th verb formats the i-th argument; an argument of the
\* wrong type is rendered as %!verb(type=value), here ok = FALSE
Sprintf(verbs, args) ==
    [i \in 1..Len(verbs) |->
        [verb |-> verbs[i],
         ok |-> VerbAccepts(verbs[i], args[i].type),
         val |-> args[i].val,
         str |-> args[i].str]]

\* perf_tmpl: value=%f;%f;%f;%f;%f response_time=%fs;%f;%f; num_matching_metrics=%d;
PerfVerbs == <<"f", "f", "f", "f", "f", "f", "f", "f", "d">>

\* x holds the locals of run_check that its helper closures use
genperf(ecode, x) ==
    LET rt_warn == Rat(x.tmout, 2)
        _fmt(key, count) ==
            Sprintf(PerfVerbs,
                    <<FloatArg(x.vals[key].avg), F(x.warn), F(x.crit),
                      F(x.vals[key].lower), F(x.vals[key].upper),
                      F(x.RT), FloatArg(rt_warn), F(x.tmout), IntArg(count)>>)
    IN CASE ecode = E_CRITICAL -> _fmt("c", x.nc)
         [] ecode = E_WARNING -> _fmt("w", x.nw)
         [] ecode = E_OK -> _fmt("o", x.no)
         [] OTHER ->
              Sprintf(PerfVerbs,
                      <<F(0), F(x.warn), F(x.crit), F(0), F(0),
                        IntArg(0), F(x.RT), FloatArg(rt_warn), F(x.tmout)>>)

\* Metrics.Dump: one line per metric
Dump(ms, ralign) ==
    [i \in 1..Len(ms) |->
        [ralign |-> ralign, Path |-> ms[i].Path, Value |-> ms[i].Value, TS |-> ms[i].TS]]

long_output(o, w, c, align) ==
    (IF Len(c) > 0 THEN <<[state |-> S_CRITICAL, lines |-> Dump(c, align)]>> ELSE <<>>)
    \o (IF Len(w) > 0 THEN <<[state |-> S_WARNING, lines |-> Dump(w, align)]>> ELSE <<>>)
    \o (IF Len(o) > 0 THEN <<[state |-> S_OK, lines |-> Dump(o, align)]>> ELSE <<>>)

\* what nagios_result(ecode) prints: "<status>: <msg>\n\n<lo>"
nagios_result(ecode, x) ==
    LET dw == IF x.condition = CMP_LT THEN "below" ELSE "above"
        msg_verbs == <<"d", "s", "s", ".02f">>
        msg ==
            CASE ecode = E_CRITICAL ->
                   [tmpl |-> "%d metrics are %s the %s threshold of %.02f %s",
                    args |-> Sprintf(msg_verbs, <<IntArg(x.nc), StrArg(dw),
                                                  StrArg("critical"), F(x.crit)>>)]
              [] ecode = E_WARNING ->
                   [tmpl |-> "%d metrics are %s the %s threshold of %.02f %s",
                    args |-> Sprintf(msg_verbs, <<IntArg(x.nw), StrArg(dw),
                                                  StrArg("warning"), F(x.warn)>>)]
              [] ecode = E_OK ->
                   [tmpl |-> "%d metrics at %.02f on average, min: %.02f, max: %.02f %s",
                    args |-> Sprintf(<<"d", ".02f", ".02f", ".02f">>,
                                     <<IntArg(x.no), FloatArg(x.vals["o"].avg),
                                       F(x.vals["o"].lower), F(x.vals["o"].upper)>>)]
              [] OTHER ->
                   [tmpl |-> "No values in Graphite within %s range!%s",
                    args |-> Sprintf(<<"s">>, <<StrArg(x.period)>>)]
        status ==
            CASE ecode = E_CRITICAL -> S_CRITICAL
              [] ecode = E_WARNING -> S_WARNING
              [] ecode = E_OK -> S_OK
              [] OTHER -> S_UNKNOWN
    IN [kind |-> "nagios_result", status |-> status, msg |-> msg,
        perf |-> genperf(ecode, x), lo |-> x.lo]

\* a line printed outside nagios_result: no performance data, no long output
Line(kind, status, tmpl, args) ==
    [kind |-> kind, status |-> status, msg |-> [tmpl |-> tmpl, args |-> args],
     perf |-> <<>>, lo |-> <<>>]

\* the evaluation at the end of run_check, mutated: WARNING is looked at first
Evaluate_WarningFirst(nc, nw, no) ==
    (IF nw > 0 THEN <<E_WARNING>> ELSE <<>>)
    \o (IF nc > 0 THEN <<E_CRITICAL>> ELSE <<>>)
    \o (IF no > 0 THEN <<E_OK>> ELSE <<E_UNKNOWN>>)

\* the evaluation at the end of run_check: the calls of nagios_result in the
\* order the three if statements make them
Evaluate(nc, nw, no) ==
    (IF nc > 0 THEN <<E_CRITICAL>> ELSE <<>>)
    \o (IF nw > 0 THEN <<E_WARNING>> ELSE <<>>)
    \o (IF no > 0 THEN <<E_OK>> ELSE <<E_UNKNOWN>>)

\* os.Exit inside nagios_result ends the process: only the first call runs
UntilExit(calls) == <<calls[1]>>

\* res.Err != nil, mutated: the error is never looked at
HasErr_Ignored(r) == FALSE

\* res.Err != nil
HasErr(r) == r.Err # ""

\* int(tmout): truncation of a non-negative float64
IntOf(tenths) == tenths \div 10

\* ------------------------------------------------------------------------
\* State
\* ------------------------------------------------------------------------
VARIABLES
    cli,              \* the flags: [if, warning, critical, timeout, timeperiod]
    condition,        \* run_check's local: the normalised direction
    ctl,              \* control task: Idle, Fetching, Success, FetchError, Timeout
    fpc,              \* fetch task: idle, geturl, read, send, done, fatal
    gr,               \* parse's local GraphiteResponse [MS, RT, Err]
    mmap,             \* parse's map from path to the Metric kept for it
    fieldsPerRecord,  \* csv.Reader.FieldsPerRecord
    stream,           \* the records rdr.Read has returned so far
    timerFired,       \* the channel of time.After holds its value
    chRes,            \* the messages sent on chRes
    res,              \* run_check's local: the message it received
    parts,            \* run_check's locals o, w, c
    vals,             \* run_check's map of statistics
    stdout,           \* what the process has printed
    exits             \* the exit codes the process has ended with

vars == <<cli, condition, ctl, fpc, gr, mmap, fieldsPerRecord, stream,
          timerFired, chRes, res, parts, vals, stdout, exits>>

\* error values
ErrNetwork == "NetworkError"
ErrStream == "StreamError"
ErrFieldCount == "ErrFieldCount"

NoResponse == [MS |-> <<>>, RT |-> 0, Err |-> ""]
NoParts == [o |-> <<>>, w |-> <<>>, c |-> <<>>]
NoStats == [avg |-> <<0, 1>>, lower |-> 0, upper |-> 0]
NoVals == [k \in {"c", "w", "o"} |-> NoStats]

\* the process is gone once os.Exit was called
exited == exits # <<>>

Init ==
    /\ cli \in {[if |-> f, warning |-> t[1], critical |-> t[2],
                 timeout |-> tm, timeperiod |-> DEF_PERIOD] :
                    f \in IfFlags, t \in Thresholds, tm \in Timeouts}
    /\ condition = ""
    /\ ctl = "Idle"
    /\ fpc = "idle"
    /\ gr = NoResponse
    /\ mmap = <<>>
    /\ fieldsPerRecord = 0
    /\ stream = <<>>
    /\ timerFired = FALSE
    /\ chRes = <<>>
    /\ res = NoResponse
    /\ parts = NoParts
    /\ vals = NoVals
    /\ stdout = <<>>
    /\ exits = <<>>

\* ------------------------------------------------------------------------
\* Control task, first part: run_check up to the select
\* ------------------------------------------------------------------------
Start ==
    /\ ctl = "Idle"
    /\ condition' = IF cli.if # CMP_GT THEN CMP_LT ELSE cli.if
    /\ ctl' = "Fetching"
    /\ fpc' = "geturl"
    /\ UNCHANGED <<cli, gr, mmap, fieldsPerRecord, stream, timerFired, chRes,
                   res, parts, vals, stdout, exits>>

\* ------------------------------------------------------------------------
\* Fetch task: parse
\* ------------------------------------------------------------------------
\* the orders in which "for i := range mmap" can append the map's values
MapOrders(mm) ==
    LET n == Cardinality(DOMAIN mm)
        keys == {k \in [1..n -> DOMAIN mm] : \A i, j \in 1..n : k[i] = k[j] => i = j}
    IN {[i \in 1..n |-> mm[k[i]]] : k \in keys}

\* http.NewRequest fails: geturl calls log.Fatal, which logs and exits
GetUrlFatal ==
    /\ fpc = "geturl" /\ ~exited
    /\ fpc' = "fatal"
    /\ stdout' = Append(stdout, Line("log.Fatal", "", "", <<>>))
    /\ exits' = Append(exits, E_LOGFATAL)
    /\ UNCHANGED <<cli, condition, ctl, gr, mmap, fieldsPerRecord, stream,
                   timerFired, chRes, res, parts, vals>>

\* client.Do fails: parse stores the error and goes to send it
GetUrlError ==
    /\ fpc = "geturl" /\ ~exited
    /\ \E rt \in RoundTrips : gr' = [gr EXCEPT !.RT = rt, !.Err = ErrNetwork]
    /\ fpc' = "send"
    /\ UNCHANGED <<cli, condition, ctl, mmap, fieldsPerRecord, stream,
                   timerFired, chRes, res, parts, vals, stdout, exits>>

\* client.Do returns a response
GetUrlOk ==
    /\ fpc = "geturl" /\ ~exited
    /\ \E rt \in RoundTrips : gr' = [gr EXCEPT !.RT = rt]
    /\ fpc' = "read"
    /\ UNCHANGED <<cli, condition, ctl, mmap, fieldsPerRecord, stream,
                   timerFired, chRes, res, parts, vals, stdout, exits>>

\* the map after one decoded metric went through the body of the loop
Reduce(mm, m) ==
    [p \in DOMAIN mm \cup {m.Path} |->
        IF p = m.Path
        THEN IF p \in DOMAIN mm THEN Latest(m, mm[p]) ELSE m
        ELSE mm[p]]

\* csv.Reader.Read with FieldsPerRecord = 0 at the start: the first record
\* sets the number of fields; a later record with another number of fields
\* is returned together with ErrFieldCount
FieldCountOk(fpr, rec) == fpr = 0 \/ Len(rec) = fpr

\* rdr.Read returns a record and no error: one pass through the loop
ReadRecord ==
    /\ fpc = "read" /\ ~exited
    /\ Len(stream) < MaxRecords
    /\ \E rec \in Records :
        /\ FieldCountOk(fieldsPerRecord, rec)
        /\ stream' = Append(stream, rec)
        /\ fieldsPerRecord' = Len(rec)
        /\ LET d == NewMetricFromCSV(rec)
           IN mmap' = IF d.err # "" THEN mmap ELSE Reduce(mmap, d.m)
    /\ UNCHANGED <<cli, condition, ctl, fpc, gr, timerFired, chRes, res,
                   parts, vals, stdout, exits>>

\* rdr.Read returns ErrFieldCount: the loop is left with gr.Err set
ReadFieldCountError ==
    /\ fpc = "read" /\ ~exited
    /\ Len(stream) < MaxRecords
    /\ \E rec \in Records :
        /\ ~FieldCountOk(fieldsPerRecord, rec)
        /\ stream' = Append(stream, rec)
    /\ \E ms \in MapOrders(mmap) : gr' = [gr EXCEPT !.MS = ms, !.Err = ErrFieldCount]
    /\ fpc' = "send"
    /\ UNCHANGED <<cli, condition, ctl, mmap, fieldsPerRecord, timerFired,
                   chRes, res, parts, vals, stdout, exits>>

\* rdr.Read returns another error (I/O, quoting): the loop is left with gr.Err set
ReadStreamError ==
    /\ fpc = "read" /\ ~exited
    /\ \E ms \in MapOrders(mmap) : gr' = [gr EXCEPT !.MS = ms, !.Err = ErrStream]
    /\ fpc' = "send"
    /\ UNCHANGED <<cli, condition, ctl, mmap, fieldsPerRecord, stream,
                   timerFired, chRes, res, parts, vals, stdout, exits>>

\* rdr.Read returns io.EOF: the loop is left without error
ReadEOF ==
    /\ fpc = "read" /\ ~exited
    /\ \E ms \in MapOrders(mmap) : gr' = [gr EXCEPT !.MS = ms]
    /\ fpc' = "send"
    /\ UNCHANGED <<cli, condition, ctl, mmap, fieldsPerRecord, stream,
                   timerFired, chRes, res, parts, vals, stdout, exits>>

\* ------------------------------------------------------------------------
\* Timer and the select of run_check
\* ------------------------------------------------------------------------
TimerFire ==
    /\ ctl = "Fetching" /\ ~exited
    /\ ~timerFired
    /\ timerFired' = TRUE
    /\ UNCHANGED <<cli, condition, ctl, fpc, gr, mmap, fieldsPerRecord, stream,
                   chRes, res, parts, vals, stdout, exits>>

\* case res := <-chRes, with res.Err != nil.  chRes is unbuffered: the send
\* of parse and this receive happen together
RecvError ==
    /\ ctl = "Fetching" /\ ~exited
    /\ fpc = "send"
    /\ HasErr(gr)
    /\ chRes' = Append(chRes, gr)
    /\ res' = gr
    /\ fpc' = "done"
    /\ stdout' = Append(stdout, Line("Printf", S_CRITICAL, "Error parsing result: %q",
                                      Sprintf(<<"q">>, <<ErrArg(gr.Err)>>)))
    /\ exits' = Append(exits, E_CRITICAL)
    /\ ctl' = "FetchError"
    /\ UNCHANGED <<cli, condition, gr, mmap, fieldsPerRecord, stream,
                   timerFired, parts, vals>>

Stats(ms) == [avg |-> Avg(ms), lower |-> Min(ms), upper |-> Max(ms)]

\* case res := <-chRes, with res.Err == nil: classify, report and exit
RecvResult ==
    /\ ctl = "Fetching" /\ ~exited
    /\ fpc = "send"
    /\ ~HasErr(gr)
    /\ chRes' = Append(chRes, gr)
    /\ res' = gr
    /\ fpc' = "done"
    /\ \E p \in FilterOffenders(gr.MS, condition, cli.warning, cli.critical) :
        LET v == [k \in {"c", "w", "o"} |-> Stats(p[k])]
            x == [condition |-> condition, warn |-> cli.warning, crit |-> cli.critical,
                  tmout |-> cli.timeout, period |-> cli.timeperiod, RT |-> gr.RT,
                  nc |-> Len(p.c), nw |-> Len(p.w), no |-> Len(p.o), vals |-> v,
                  lo |-> long_output(p.o, p.w, p.c, LongestKey(gr.MS))]
            calls == UntilExit(Evaluate(x.nc, x.nw, x.no))
        IN /\ parts' = p
           /\ vals' = v
           /\ stdout' = stdout \o [i \in 1..Len(calls) |-> nagios_result(calls[i], x)]
           /\ exits' = exits \o calls
    /\ ctl' = "Success"
    /\ UNCHANGED <<cli, condition, gr, mmap, fieldsPerRecord, stream, timerFired>>

\* case <-time.After(...)
TimeoutCase ==
    /\ ctl = "Fetching" /\ ~exited
    /\ timerFired
    /\ stdout' = Append(stdout, Line("Printf", S_CRITICAL, "Timed out after %d seconds",
                                      Sprintf(<<"d">>, <<IntArg(IntOf(cli.timeout))>>)))
    /\ exits' = Append(exits, E_CRITICAL)
    /\ ctl' = "Timeout"
    /\ UNCHANGED <<cli, condition, fpc, gr, mmap, fieldsPerRecord, stream,
                   timerFired, chRes, res, parts, vals>>

Next ==
    \/ Start
    \/ GetUrlFatal
    \/ GetUrlError
    \/ GetUrlOk
    \/ ReadRecord
    \/ ReadFieldCountError
    \/ ReadStreamError
    \/ ReadEOF
    \/ TimerFire
    \/ RecvError
    \/ RecvResult
    \/ TimeoutCase

Spec == Init /\ [][Next]_vars

\* the runtime runs the timer and the control task whenever they can run;
\* nothing makes the fetch task progress
FairSpec == Spec /\ WF_vars(Start) /\ WF_vars(TimerFire) /\ WF_vars(TimeoutCase)

\* ------------------------------------------------------------------------
\* Vocabulary of the properties
\* ------------------------------------------------------------------------
Terminal == {"Success", "FetchError", "Timeout"}

\* the threshold comparison as the specification words it
Satisfies(dir, v, t) == (dir = "gt" /\ v >= t) \/ (dir # "gt" /\ v <= t)

\* the direction the run works with
Direction == IF cli.if = "gt" THEN "gt" ELSE "lt"

\* the number of points of a slice with the given path
CountPath(ms, path) == Cardinality({i \in 1..Len(ms) : ms[i].Path = path})

\* the records the loop of parse has taken through its body
Processed ==
    IF gr.Err = ErrFieldCount THEN SubSeq(stream, 1, Len(stream) - 1) ELSE stream

WellFormed(rec) ==
    /\ Len(rec) = 3
    /\ rec[1] # ""
    /\ ParseTime(rec[2]).ok
    /\ rec[3] # "" /\ ParseFloat(rec[3]).ok

PointOf(rec) == [Path |-> rec[1], TS |-> ParseTime(rec[2]).ts, Value |-> ParseFloat(rec[3]).val]

\* the points of the well-formed records of a sequence of records, in order
PointsOf(recs) ==
    LET good == SelectSeq(recs, WellFormed)
    IN [i \in 1..Len(good) |-> PointOf(good[i])]

\* D[i] is the point to keep for its path: no point of the path is later,
\* and no earlier point of the path is as late
IsKept(D, i) ==
    \A j \in 1..Len(D) :
        D[j].Path = D[i].Path =>
            /\ D[j].TS <= D[i].TS
            /\ (D[j].TS = D[i].TS => i <= j)

\* the set of points to keep of a sequence of points
KeptSet(D) == {D[i] : i \in {k \in 1..Len(D) : IsKept(D, k)}}

SeqSet(ms) == {ms[i] : i \in 1..Len(ms)}

\* ------------------------------------------------------------------------
\* C1
\* ------------------------------------------------------------------------
WorstCode(p) ==
    IF p.c # <<>> THEN 2
    ELSE IF p.w # <<>> THEN 1
    ELSE IF p.o # <<>> THEN 0
    ELSE 3

StatusWord(code) ==
    CASE code = 0 -> "OK" [] code = 1 -> "WARNING" [] code = 2 -> "CRITICAL" [] OTHER -> "UNKNOWN"

\* C1: when a point set was delivered without error, the run exits with the
\* code of the worst non-empty partition (2 critical, 1 warning, 0 ok, 3 when
\* all are empty) and prints the status word of that code.
C1_ExitCodeOfWorstPartition ==
    ctl = "Success" =>
        /\ exits = <<WorstCode(parts)>>
        /\ stdout[Len(stdout)].status = StatusWord(WorstCode(parts))

\* a run with critical and warning points that exited with 2
C1_Witness ==
    /\ ctl = "Success"
    /\ parts.c # <<>> /\ parts.w # <<>>
    /\ exits = <<2>>

\* ------------------------------------------------------------------------
\* C2
\* ------------------------------------------------------------------------
\* C2: FilterOffenders puts every input point in exactly one partition:
\* critical iff its value satisfies the inclusive comparison against the
\* critical threshold, warning iff it does not but satisfies it against the
\* warning threshold, ok otherwise; the sizes add up to the input's size.
C2_PartitionComplete ==
    ctl = "Success" =>
        /\ Len(parts.o) + Len(parts.w) + Len(parts.c) = Len(res.MS)
        /\ \A i \in 1..Len(res.MS) :
            LET m == res.MS[i]
                isC == Satisfies(Direction, m.Value, cli.critical)
                isW == ~isC /\ Satisfies(Direction, m.Value, cli.warning)
            IN /\ (m \in SeqSet(parts.c)) <=> isC
               /\ (m \in SeqSet(parts.w)) <=> isW
               /\ (m \in SeqSet(parts.o)) <=> (~isC /\ ~isW)
               /\ CountPath(parts.o, m.Path) + CountPath(parts.w, m.Path)
                    + CountPath(parts.c, m.Path) = 1

\* two points were classified, one of them sitting exactly on the critical
\* threshold and counted as critical
C2_Witness ==
    /\ ctl = "Success"
    /\ Len(res.MS) = 2
    /\ \E i \in 1..Len(parts.c) : parts.c[i].Value = cli.critical

\* ------------------------------------------------------------------------
\* C3
\* ------------------------------------------------------------------------
Scenario1 ==
    /\ cli.if = "gt" /\ cli.warning = 300 /\ cli.critical = 500
    /\ stream = << <<"a.b.c", T0, "42.5">> >>
    /\ ctl = "Success"

\* C3 as claimed: in scenario 1 (one record a.b.c = 42.5, gt, warning 30,
\* critical 50) the point is OK, the exit code is 0 and the OK message
\* reports 1 metric with average, min and max 42.50.
C3_Original ==
    Scenario1 =>
        /\ Len(parts.o) = 1 /\ parts.w = <<>> /\ parts.c = <<>>
        /\ exits = <<0>>
        /\ stdout[1].status = "OK"
        /\ stdout[1].msg.tmpl = "%d metrics at %.02f on average, min: %.02f, max: %.02f %s"
        /\ stdout[1].msg.args[1].val = <<1, 1>>
        /\ stdout[1].msg.args[2].val = <<425, 1>>
        /\ stdout[1].msg.args[3].val = <<425, 1>>
        /\ stdout[1].msg.args[4].val = <<425, 1>>

\* C3: in scenario 1 the point is WARNING (42.5 >= 30), the ok and critical
\* partitions are empty, the exit code is 1 and the WARNING message reports
\* 1 metric above the warning threshold of 30.00.
C3_Scenario1IsWarning ==
    Scenario1 =>
        /\ Len(parts.w) = 1 /\ parts.o = <<>> /\ parts.c = <<>>
        /\ exits = <<1>>
        /\ stdout[1].status = "WARNING"
        /\ stdout[1].msg.tmpl = "%d metrics are %s the %s threshold of %.02f %s"
        /\ stdout[1].msg.args[1].val = <<1, 1>>
        /\ stdout[1].msg.args[2].str = "above"
        /\ stdout[1].msg.args[3].str = "warning"
        /\ stdout[1].msg.args[4].val = <<300, 1>>

\* scenario 1 has run to its exit
C3_Witness == Scenario1 /\ exited /\ res.MS = <<[Path |-> "a.b.c", TS |-> 1466157600, Value |-> 425]>>

\* ------------------------------------------------------------------------
\* C4
\* ------------------------------------------------------------------------
\* C4: after the loop of parse has consumed any sequence of records, the map
\* holds exactly one point for each path that occurred among the decoded
\* records, namely the one with the latest timestamp, and the first to
\* arrive among several with that timestamp; the point set built from the
\* map has no two points of the same path.
C4_LatestWinsFirstOnTie ==
    LET D == PointsOf(Processed)
    IN /\ DOMAIN mmap = {D[i].Path : i \in 1..Len(D)}
       /\ \A i \in 1..Len(D) : IsKept(D, i) => mmap[D[i].Path] = D[i]
       /\ fpc \in {"send", "done"} /\ gr.Err # ErrNetwork =>
            /\ SeqSet(gr.MS) = KeptSet(D)
            /\ \A i, j \in 1..Len(gr.MS) : gr.MS[i].Path = gr.MS[j].Path => i = j

\* two records of one path with the same timestamp and different values
\* were reduced, and the point set holds the first of them
C4_Witness ==
    LET D == PointsOf(Processed)
    IN /\ fpc = "send"
       /\ \E i, j \in 1..Len(D) :
            /\ i < j
            /\ D[i].Path = D[j].Path /\ D[i].TS = D[j].TS /\ D[i].Value # D[j].Value
            /\ IsKept(D, i)
            /\ D[i] \in SeqSet(gr.MS)

\* ------------------------------------------------------------------------
\* C5
\* ------------------------------------------------------------------------
\* C5: a malformed record (field count other than 3, empty path, bad
\* timestamp, empty or non-numeric value) anywhere in the stream is skipped:
\* it never makes the fetch fail, and the point set is the one obtained from
\* the well-formed records of the stream alone.
C5_MalformedNeverAborts ==
    /\ gr.Err \in {"", ErrNetwork, ErrStream}
    /\ ctl = "FetchError" => res.Err \in {ErrNetwork, ErrStream}
    /\ fpc \in {"send", "done"} /\ gr.Err = "" =>
            SeqSet(gr.MS) = KeptSet(PointsOf(stream))

\* ------------------------------------------------------------------------
\* C6
\* ------------------------------------------------------------------------
\* C6: a network error, a stream-read error or the timer winning the race
\* ends the run with exit code 2 and one CRITICAL line; no partition result,
\* no other status and no long output is produced, also when points had
\* been reduced before the error.
C6_FatalIsCritical ==
    (ctl = "Timeout" \/ (chRes # <<>> /\ chRes[1].Err # "")) =>
        /\ exits = <<E_CRITICAL>>
        /\ Len(stdout) = 1
        /\ stdout[1].kind = "Printf"
        /\ stdout[1].msg.tmpl \in {"Error parsing result: %q", "Timed out after %d seconds"}
        /\ stdout[1].status = S_CRITICAL
        /\ stdout[1].perf = <<>> /\ stdout[1].lo = <<>>
        /\ parts = NoParts /\ vals = NoVals

\* a stream error arrived after points had been reduced
C6_Witness ==
    /\ ctl = "FetchError"
    /\ res.Err = ErrStream
    /\ res.MS # <<>>

\* ------------------------------------------------------------------------
\* C7
\* ------------------------------------------------------------------------
\* C7: every run ends with the control task in Success, FetchError or
\* Timeout; a run in which the fetch task posted no result ends in Timeout,
\* with exit code 2 and the message "Timed out after <n> seconds".
C7_EndsInTerminalState ==
    exited =>
        /\ ctl \in Terminal
        /\ chRes = <<>> =>
            /\ ctl = "Timeout"
            /\ exits = <<E_CRITICAL>>
            /\ stdout[1].msg.tmpl = "Timed out after %d seconds"
            /\ stdout[1].msg.args[1].val = <<IntOf(cli.timeout), 1>>

\* ------------------------------------------------------------------------
\* C8
\* ------------------------------------------------------------------------
StatusReports == {"nagios_result", "Printf"}

\* C8: in every interleaving a run emits exactly one status report and one
\* exit code: at most one message is posted on chRes, nothing is printed
\* before the exit, and after a timeout the fetch result is not reported.
C8_OneReportOneExit ==
    /\ Len(chRes) <= 1
    /\ Len(exits) <= 1
    /\ ~exited => stdout = <<>>
    /\ exited =>
        /\ Len(stdout) = 1
        /\ stdout[1].kind \in StatusReports
        /\ ctl = "Timeout" =>
            stdout[1].msg.tmpl = "Timed out after %d seconds" /\ chRes = <<>>

\* ------------------------------------------------------------------------
\* C9
\* ------------------------------------------------------------------------
\* the key of the partition a status reports on
KeyOf(status) ==
    CASE status = S_CRITICAL -> "c" [] status = S_WARNING -> "w" [] OTHER -> "o"

\* the nine values of the layout, for the status printed
PerfLayout(status) ==
    LET k == KeyOf(status)
        known == status # S_UNKNOWN
    IN << IF known THEN vals[k].avg ELSE <<0, 1>>,
          <<cli.warning, 1>>,
          <<cli.critical, 1>>,
          <<IF known THEN vals[k].lower ELSE 0, 1>>,
          <<IF known THEN vals[k].upper ELSE 0, 1>>,
          <<res.RT, 1>>,
          Rat(cli.timeout, 2),
          <<cli.timeout, 1>>,
          <<IF known THEN Len(parts[k]) ELSE 0, 1>> >>

\* C9: for every status reported, UNKNOWN included, the nine values of the
\* performance data are, in this order: the partition's average, the warning
\* threshold, the critical threshold, the partition's min, its max, the
\* round-trip time, half the timeout, the timeout and the partition's count.
C9_PerfLayoutFixed ==
    ctl = "Success" =>
        \A i \in 1..9 :
            /\ stdout[1].perf[i].ok
            /\ stdout[1].perf[i].val = PerfLayout(stdout[1].status)[i]

\* ------------------------------------------------------------------------
\* C10
\* ------------------------------------------------------------------------
\* C10: for every non-empty partition the max computed by Max() is the
\* largest value in it (the value of a member, exceeded by no member), and
\* it is the max the performance data of the reported partition carries.
C10_MaxIsLargest ==
    ctl = "Success" =>
        /\ \A k \in {"c", "w", "o"} :
            parts[k] # <<>> =>
                /\ \E i \in 1..Len(parts[k]) : parts[k][i].Value = vals[k].upper
                /\ \A i \in 1..Len(parts[k]) : parts[k][i].Value <= vals[k].upper
        /\ stdout[1].status # S_UNKNOWN =>
            stdout[1].perf[5].val = <<vals[KeyOf(stdout[1].status)].upper, 1>>

\* every run of the fair specification ends
Termination == <>exited

====
